---- MODULE Spec2Model ----
(***************************************************************************)
(* A model of package tokbox (src/tokbox.go): the participant-token        *)
(* builder Session.Token, the batch generator Session.Tokens, the API      *)
(* assertion builder Tokbox.jwtToken and the session / archive calls       *)
(* NewSession, StartArchiving and StopArchiving.                           *)
(*                                                                         *)
(* Text is a sequence of characters, so that concatenation, escaping,      *)
(* decimal formatting and substring search are computed; a literal of the  *)
(* source that no operation looks inside is kept as one element.           *)
(***************************************************************************)
EXTENDS Integers, Sequences, FiniteSets, TLC

VARIABLES
    tokIn, tokOut,                      \* one call of Session.Token
    clock, jwtOut,                      \* calls of Tokbox.jwtToken
    args, mainpc, idx, wg, lock, ret, retBy, wpc, wres, result,
                                        \* one call of Session.Tokens
    issuers, sessions, archives, last   \* the session / archive calls

tokenVars == <<tokIn, tokOut>>
jwtVars   == <<clock, jwtOut>>
batchVars == <<args, mainpc, idx, wg, lock, ret, retBy, wpc, wres, result>>
apiVars   == <<issuers, sessions, archives, last>>
vars      == <<tokenVars, jwtVars, batchVars, apiVars>>

(***************************************************************************)
(* Bounds of the model.                                                    *)
(***************************************************************************)
\* Width in bits of the model's signed integers; Go's int64 has 64.
IntBits == 6
\* Largest number of tokens one Tokens call is asked for.
MaxN == 2
\* Largest clock reading handed to jwtToken.
MaxClock == 12
\* Largest number of Session values, and of Archive values, alive at once.
MaxSessions == 2
MaxArchives == 2

(***************************************************************************)
(* Text helpers.                                                           *)
(***************************************************************************)
Digit(d) ==
    CASE d = 0 -> "0" [] d = 1 -> "1" [] d = 2 -> "2" [] d = 3 -> "3"
      [] d = 4 -> "4" [] d = 5 -> "5" [] d = 6 -> "6" [] d = 7 -> "7"
      [] d = 8 -> "8" [] d = 9 -> "9"

RECURSIVE NatToStr(_)
NatToStr(n) == IF n < 10 THEN <<Digit(n)>> ELSE NatToStr(n \div 10) \o <<Digit(n % 10)>>

\* fmt.Sprintf("%d", n)
FormatInt(n) == IF n < 0 THEN <<"-">> \o NatToStr(-n) ELSE NatToStr(n)

\* url.QueryEscape on one character: letters, digits and - _ . ~ are kept,
\* a space becomes +, every other byte becomes %XX.
EscapeChar(c) ==
    CASE c = " " -> <<"+">>
      [] c = "&" -> <<"%", "2", "6">>
      [] c = "=" -> <<"%", "3", "D">>
      [] c = "%" -> <<"%", "2", "5">>
      [] c = ":" -> <<"%", "3", "A">>
      [] OTHER   -> <<c>>

RECURSIVE QueryEscape(_)
QueryEscape(s) ==
    IF s = <<>> THEN <<>> ELSE EscapeChar(Head(s)) \o QueryEscape(Tail(s))

\* strings.Contains
Contains(s, sub) ==
    \E i \in 1..(Len(s) - Len(sub) + 1) : SubSeq(s, i, i + Len(sub) - 1) = sub

\* Go's wrapping addition on signed integers of IntBits bits.
WrapInt(x) == ((x + 2^(IntBits - 1)) % 2^IntBits) - 2^(IntBits - 1)
MaxInt == 2^(IntBits - 1) - 1

(***************************************************************************)
(* Values of the package.                                                  *)
(***************************************************************************)
\* A nil pointer; pointers to Tokbox, Session and Archive values are
\* positions in the heaps issuers, sessions and archives.
NilPtr == 0

\* type Role and its constants
Publisher  == <<"p", "u", "b", "l", "i", "s", "h", "e", "r">>
Subscriber == <<"s", "u", "b", "s", "c", "r", "i", "b", "e", "r">>
Moderator  == <<"m", "o", "d", "e", "r", "a", "t", "o", "r">>

\* func New(apikey, partnerSecret)
New(apikey, partnerSecret) ==
    [apiKey |-> apikey, partnerSecret |-> partnerSecret, betaURL |-> <<>>]

(***************************************************************************)
(* Session.Token                                                           *)
(***************************************************************************)
\* rand.Intn(999999) draws from 0 .. NonceRange - 1.
NonceRange == 999999

\* hmac.New(sha1.New, key) written with msg, then Sum: the digest stands
\* for itself, named by what it was computed from.
HmacSha1(key, msg) == [key |-> key, msg |-> msg]

\* The outcomes of h.Write: all bytes written, an error, a short write.
WriteOutcomes == {"ok", "err", "short"}

\* The value returned beside an error: the empty string.
NoToken == [prefix |-> <<>>, partner_id |-> <<>>, sig |-> HmacSha1(<<>>, <<>>), data |-> <<>>]

\* A bug: the data string is built without the nonce.
DataStrNoNonce(SessionID, role, connectionData, expiration, now, nonce) ==
    <<"s", "e", "s", "s", "i", "o", "n", "_", "i", "d", "=">> \o QueryEscape(SessionID)
    \o <<"&", "c", "r", "e", "a", "t", "e", "_", "t", "i", "m", "e", "=">> \o QueryEscape(FormatInt(now))
    \o (IF expiration > 0
        THEN <<"&", "e", "x", "p", "i", "r", "e", "_", "t", "i", "m", "e", "=">> \o QueryEscape(FormatInt(WrapInt(now + expiration)))
        ELSE <<>>)
    \o (IF Len(role) > 0 THEN <<"&", "r", "o", "l", "e", "=">> \o QueryEscape(role) ELSE <<>>)
    \o (IF Len(connectionData) > 0
        THEN <<"&", "c", "o", "n", "n", "e", "c", "t", "i", "o", "n", "_", "d", "a", "t", "a", "=">> \o QueryEscape(connectionData)
        ELSE <<>>)

\* The data string signed by Token, lines 293-305.
DataStr(SessionID, role, connectionData, expiration, now, nonce) ==
    <<"s", "e", "s", "s", "i", "o", "n", "_", "i", "d", "=">> \o QueryEscape(SessionID)
    \o <<"&", "c", "r", "e", "a", "t", "e", "_", "t", "i", "m", "e", "=">> \o QueryEscape(FormatInt(now))
    \o (IF expiration > 0
        THEN <<"&", "e", "x", "p", "i", "r", "e", "_", "t", "i", "m", "e", "=">> \o QueryEscape(FormatInt(WrapInt(now + expiration)))
        ELSE <<>>)
    \o (IF Len(role) > 0 THEN <<"&", "r", "o", "l", "e", "=">> \o QueryEscape(role) ELSE <<>>)
    \o (IF Len(connectionData) > 0
        THEN <<"&", "c", "o", "n", "n", "e", "c", "t", "i", "o", "n", "_", "d", "a", "t", "a", "=">> \o QueryEscape(connectionData)
        ELSE <<>>)
    \o <<"&", "n", "o", "n", "c", "e", "=">> \o QueryEscape(FormatInt(nonce))

\* "T1==" followed by the base64 of "partner_id=<key>&sig=<hex>:<dataStr>";
\* the encoded text is kept by its three parts.
EncodeToken(apiKey, digest, dataStr) ==
    [prefix |-> <<"T", "1", "=", "=">>, partner_id |-> apiKey, sig |-> digest, data |-> dataStr]

\* Session.Token on session s, with heap the Tokbox values s.T may point to,
\* now the clock reading, nonce the draw of rand.Intn and w what h.Write did.
Token(s, heap, role, connectionData, expiration, now, nonce, w) ==
    LET dataStr == DataStr(s.SessionID, role, connectionData, expiration, now, nonce)
    IN  IF s.T = NilPtr
        THEN [kind |-> "panic", a |-> NoToken, e |-> <<"nil pointer dereference">>]
        ELSE IF w = "err"
        THEN [kind |-> "err", a |-> NoToken, e |-> <<"hmac write error">>]
        ELSE IF w = "short"
        THEN [kind |-> "err", a |-> NoToken, e |-> <<"hmac not enough bytes written">>]
        ELSE [kind |-> "ok",
              a |-> EncodeToken(heap[s.T].apiKey,
                                HmacSha1(heap[s.T].partnerSecret, dataStr),
                                dataStr),
              e |-> <<>>]

(***************************************************************************)
(* Idle values: what each part of the state holds while a specification    *)
(* exercises another part.                                                 *)
(***************************************************************************)
OneIssuer == <<New(<<"k", "1">>, <<"x">>)>>

TokenIdle == tokIn = [called |-> FALSE] /\ tokOut = [kind |-> "none"]
JwtIdle   == clock = 0 /\ jwtOut = [kind |-> "none"]
BatchIdle ==
    /\ args = [called |-> FALSE]
    /\ mainpc = "idle" /\ idx = 0 /\ wg = 0 /\ lock = 0
    /\ ret = <<>> /\ retBy = <<>> /\ result = <<>>
    /\ wpc = <<>> /\ wres = <<>>
ApiIdle   ==
    /\ issuers = OneIssuer /\ sessions = <<>> /\ archives = <<>>
    /\ last = [op |-> "none"]

(***************************************************************************)
(* SpecToken: one call of Session.Token on inputs drawn by Init.           *)
(***************************************************************************)
SessionIDs  == {<<"1", "_", "M", "X">>, <<"a", "&", "n", "o", "n", "c", "e", "=", "7">>}
RoleInputs  == {<<>>, Publisher, <<"a", "&", "b">>}
ConnInputs  == {<<>>, <<"u", "=", "1", " ", "x">>}
ExpInputs   == {-1, 0, 1, 7, MaxInt}
ClockInputs == {0, 1, 9}
NonceDraws  == {0, 1, NonceRange - 1}

TokenInit ==
    /\ tokIn \in [called : {TRUE}, s : [SessionID : SessionIDs, T : {NilPtr, 1}],
                  role : RoleInputs, connectionData : ConnInputs,
                  expiration : ExpInputs]
    /\ tokOut = [kind |-> "none"]
    /\ JwtIdle /\ BatchIdle /\ ApiIdle

TokenCall ==
    /\ tokOut.kind = "none"
    /\ \E now \in ClockInputs, nonce \in NonceDraws, w \in WriteOutcomes :
         LET r == Token(tokIn.s, issuers, tokIn.role, tokIn.connectionData,
                        tokIn.expiration, now, nonce, w)
         IN  tokOut' = [kind |-> r.kind, a |-> r.a, e |-> r.e,
                        now |-> now, nonce |-> nonce]
    /\ UNCHANGED <<tokIn, jwtVars, batchVars, apiVars>>

TokenNext == TokenCall

SpecToken == TokenInit /\ [][TokenNext]_vars

\* Reading a data string back: its fields are the pieces between "&", and a
\* field's key and value are the pieces before and after its first "=".
FirstIndex(s, c) == CHOOSE i \in 1..Len(s) : s[i] = c /\ \A j \in 1..(i - 1) : s[j] # c
HasChar(s, c) == \E i \in 1..Len(s) : s[i] = c

RECURSIVE SplitOn(_, _)
SplitOn(s, c) ==
    IF ~HasChar(s, c) THEN <<s>>
    ELSE <<SubSeq(s, 1, FirstIndex(s, c) - 1)>>
         \o SplitOn(SubSeq(s, FirstIndex(s, c) + 1, Len(s)), c)

KeyOf(f) == IF HasChar(f, "=") THEN SubSeq(f, 1, FirstIndex(f, "=") - 1) ELSE f
ValOf(f) == IF HasChar(f, "=") THEN SubSeq(f, FirstIndex(f, "=") + 1, Len(f)) ELSE <<>>
KeysOf(dataStr) == [i \in 1..Len(SplitOn(dataStr, "&")) |-> KeyOf(SplitOn(dataStr, "&")[i])]

KeySessionID == <<"s", "e", "s", "s", "i", "o", "n", "_", "i", "d">>
KeyCreate    == <<"c", "r", "e", "a", "t", "e", "_", "t", "i", "m", "e">>
KeyExpire    == <<"e", "x", "p", "i", "r", "e", "_", "t", "i", "m", "e">>
KeyRole      == <<"r", "o", "l", "e">>
KeyConn      == <<"c", "o", "n", "n", "e", "c", "t", "i", "o", "n", "_", "d", "a", "t", "a">>
KeyNonce     == <<"n", "o", "n", "c", "e">>

\* The keys expected for the inputs of one call.
ExpectedKeys(in) ==
    <<KeySessionID, KeyCreate>>
    \o (IF in.expiration > 0 THEN <<KeyExpire>> ELSE <<>>)
    \o (IF in.role # <<>> THEN <<KeyRole>> ELSE <<>>)
    \o (IF in.connectionData # <<>> THEN <<KeyConn>> ELSE <<>>)
    \o <<KeyNonce>>

\* The keys of the data string are the expected ones, in the fixed order
\* (the part of C6 that does not depend on the sum now + expiration).
FieldsInOrder ==
    tokOut.kind = "ok" => KeysOf(tokOut.a.data) = ExpectedKeys(tokIn)

\* C6: the data string signed by Token lists session_id, create_time,
\* expire_time, role, connection_data, nonce in this order, session_id first
\* and nonce last; expire_time is present exactly when expiration > 0 and is
\* then create_time + expiration; role and connection_data are present
\* exactly when non-empty.
C6_DataStrFields ==
    tokOut.kind = "ok" =>
        LET f == SplitOn(tokOut.a.data, "&")
        IN  /\ KeysOf(tokOut.a.data) = ExpectedKeys(tokIn)
            /\ ValOf(f[2]) = FormatInt(tokOut.now)
            /\ tokIn.expiration > 0 =>
                   ValOf(f[3]) = FormatInt(tokOut.now + tokIn.expiration)

(***************************************************************************)
(* Tokbox.jwtToken                                                         *)
(***************************************************************************)
\* 2 * 24 * 60 * 60, the seconds added to the clock for ExpiresAt.
ExpiryWindow == 172800

\* uuid.NewV4().String(): the identifiers a call may draw.
UUIDs == {<<"u", "1">>, <<"u", "2">>}

\* jwtToken on Tokbox value t: now1 is the clock reading taken for IssuedAt,
\* now2 the one taken for ExpiresAt, id the UUID drawn, signed whether
\* SignedString succeeded.
jwtToken(t, now1, now2, id, signed) ==
    IF signed
    THEN [kind |-> "ok",
          claims |-> [Ist |-> <<"p", "r", "o", "j", "e", "c", "t">>,
                      Issuer |-> t.apiKey,
                      IssuedAt |-> now1,
                      ExpiresAt |-> now2 + ExpiryWindow,
                      Id |-> id],
          key |-> t.partnerSecret]
    ELSE [kind |-> "err"]

(***************************************************************************)
(* SpecJwt: calls of jwtToken while the clock runs.                        *)
(***************************************************************************)
TwoIssuers == <<New(<<"k", "1">>, <<"x">>), New(<<"k", "2">>, <<"y">>)>>

JwtInit ==
    /\ clock = 0 /\ jwtOut = [kind |-> "none"]
    /\ issuers = TwoIssuers /\ sessions = <<>> /\ archives = <<>>
    /\ last = [op |-> "none"]
    /\ TokenIdle /\ BatchIdle

\* A second passes.
Tick ==
    /\ clock < MaxClock
    /\ clock' = clock + 1
    /\ UNCHANGED <<jwtOut, tokenVars, batchVars, apiVars>>

\* One call of jwtToken: the clock is read twice, lines 125 and 126, and may
\* have moved on to the next second in between.
JwtCall ==
    \E t \in 1..Len(issuers), d \in {0, 1}, id \in UUIDs, signed \in BOOLEAN :
        /\ clock + d <= MaxClock
        /\ jwtOut' = jwtToken(issuers[t], clock, clock + d, id, signed)
        /\ clock' = clock + d
        /\ UNCHANGED <<tokenVars, batchVars, apiVars>>

JwtNext == Tick \/ JwtCall

SpecJwt == JwtInit /\ [][JwtNext]_vars

\* C7: every assertion produced by jwtToken has ExpiresAt equal to its own
\* IssuedAt plus the expiry window of 172800 seconds.
C7_ExpiresAtIsIssuedAtPlusWindow ==
    jwtOut.kind = "ok" =>
        jwtOut.claims.ExpiresAt = jwtOut.claims.IssuedAt + ExpiryWindow

(***************************************************************************)
(* Session.Tokens                                                          *)
(*                                                                         *)
(* mainpc is the position of the calling goroutine, wpc[w] the position of *)
(* the w-th goroutine started by the loop of line 336, wres[w] the pair    *)
(* (a, e) its call of Token returned; in sequential mode wres[w] is what   *)
(* the w-th iteration of the loop of line 353 got.  wg is the WaitGroup's  *)
(* counter, lock the goroutine holding the Mutex (0: none), retBy the      *)
(* goroutine that appended each element of ret.                            *)
(***************************************************************************)
Workers == 1..MaxN

BatchClock  == {0, 1}
BatchNonces == {0, 1}
BatchWrites == {"ok", "err"}

\* The session Tokens is called on.
BatchSession == [SessionID |-> <<"1", "_", "M", "X">>, T |-> 1]

\* a, e := s.Token(role, connectionData, expiration)
CallToken(now, nonce, w) ==
    LET r == Token(BatchSession, issuers, args.role, args.connectionData,
                   args.expiration, now, nonce, w)
    IN  [kind |-> r.kind, a |-> r.a, e |-> r.e, now |-> now, nonce |-> nonce]

\* A bug: the new token is put in front.
PrependToken(r, a) == <<a>> \o r

\* ret = append(ret, a)
AppendToken(r, a) == Append(r, a)

\* A bug: a goroutine whose signing failed leaves without w.Done().
AfterTokenNoDone(kind) == IF kind = "ok" THEN "lock" ELSE "exited"

\* Where a goroutine goes once Token returned: to lock.Lock() when e == nil,
\* straight to w.Done() otherwise.
AfterToken(kind) == IF kind = "ok" THEN "lock" ELSE "done"

BatchInit ==
    /\ args \in [called : {TRUE}, n : -1..MaxN, multithread : BOOLEAN,
                 role : {Publisher}, connectionData : {<<>>},
                 expiration : {1}]
    /\ mainpc = "start" /\ idx = 0 /\ wg = 0 /\ lock = 0
    /\ ret = <<>> /\ retBy = <<>> /\ result = <<>>
    /\ wpc = [w \in Workers |-> "unborn"]
    /\ wres = [w \in Workers |-> [kind |-> "none"]]
    /\ TokenIdle /\ JwtIdle /\ ApiIdle

\* Lines 329-334: w.Add(n) panics on a negative counter.
Start ==
    /\ mainpc = "start"
    /\ IF args.multithread
       THEN IF args.n < 0
            THEN mainpc' = "panic" /\ UNCHANGED wg
            ELSE mainpc' = "spawn" /\ wg' = wg + args.n
       ELSE mainpc' = "loop" /\ UNCHANGED wg
    /\ UNCHANGED <<args, idx, lock, ret, retBy, wpc, wres, result>>
    /\ UNCHANGED <<tokenVars, jwtVars, apiVars>>

\* Lines 336-347: one iteration starts one goroutine.
Spawn ==
    /\ mainpc = "spawn" /\ idx < args.n
    /\ wpc' = [wpc EXCEPT ![idx + 1] = "token"]
    /\ idx' = idx + 1
    /\ UNCHANGED <<args, mainpc, wg, lock, ret, retBy, wres, result>>
    /\ UNCHANGED <<tokenVars, jwtVars, apiVars>>

LoopEnd ==
    /\ mainpc = "spawn" /\ ~(idx < args.n)
    /\ mainpc' = "wait"
    /\ UNCHANGED <<args, idx, wg, lock, ret, retBy, wpc, wres, result>>
    /\ UNCHANGED <<tokenVars, jwtVars, apiVars>>

\* Lines 349-350: w.Wait() returns once the counter is zero.
WaitReturn ==
    /\ mainpc = "wait" /\ wg = 0
    /\ mainpc' = "returned" /\ result' = ret
    /\ UNCHANGED <<args, idx, wg, lock, ret, retBy, wpc, wres>>
    /\ UNCHANGED <<tokenVars, jwtVars, apiVars>>

\* Lines 353-359: one iteration of the sequential loop.
SeqIter ==
    /\ mainpc = "loop" /\ idx < args.n
    /\ \E now \in BatchClock, nonce \in BatchNonces, w \in BatchWrites :
         LET r == CallToken(now, nonce, w)
         IN  /\ wres' = [wres EXCEPT ![idx + 1] = r]
             /\ IF r.kind = "ok"
                THEN ret' = AppendToken(ret, r.a) /\ retBy' = Append(retBy, idx + 1)
                ELSE UNCHANGED <<ret, retBy>>
    /\ idx' = idx + 1
    /\ UNCHANGED <<args, mainpc, wg, lock, wpc, result>>
    /\ UNCHANGED <<tokenVars, jwtVars, apiVars>>

\* Line 360.
SeqReturn ==
    /\ mainpc = "loop" /\ ~(idx < args.n)
    /\ mainpc' = "returned" /\ result' = ret
    /\ UNCHANGED <<args, idx, wg, lock, ret, retBy, wpc, wres>>
    /\ UNCHANGED <<tokenVars, jwtVars, apiVars>>

\* Line 338.
WToken(w) ==
    /\ wpc[w] = "token"
    /\ \E now \in BatchClock, nonce \in BatchNonces, o \in BatchWrites :
         LET r == CallToken(now, nonce, o)
         IN  /\ wres' = [wres EXCEPT ![w] = r]
             /\ wpc' = [wpc EXCEPT ![w] = AfterToken(r.kind)]
    /\ UNCHANGED <<args, mainpc, idx, wg, lock, ret, retBy, result>>
    /\ UNCHANGED <<tokenVars, jwtVars, apiVars>>

\* Line 340.
WLock(w) ==
    /\ wpc[w] = "lock" /\ lock = 0
    /\ lock' = w
    /\ wpc' = [wpc EXCEPT ![w] = "append"]
    /\ UNCHANGED <<args, mainpc, idx, wg, ret, retBy, wres, result>>
    /\ UNCHANGED <<tokenVars, jwtVars, apiVars>>

\* Line 341.
WAppend(w) ==
    /\ wpc[w] = "append"
    /\ ret' = AppendToken(ret, wres[w].a) /\ retBy' = Append(retBy, w)
    /\ wpc' = [wpc EXCEPT ![w] = "unlock"]
    /\ UNCHANGED <<args, mainpc, idx, wg, lock, wres, result>>
    /\ UNCHANGED <<tokenVars, jwtVars, apiVars>>

\* Line 342.
WUnlock(w) ==
    /\ wpc[w] = "unlock"
    /\ lock' = 0
    /\ wpc' = [wpc EXCEPT ![w] = "done"]
    /\ UNCHANGED <<args, mainpc, idx, wg, ret, retBy, wres, result>>
    /\ UNCHANGED <<tokenVars, jwtVars, apiVars>>

\* Line 344.
WDone(w) ==
    /\ wpc[w] = "done"
    /\ wg' = wg - 1
    /\ wpc' = [wpc EXCEPT ![w] = "exited"]
    /\ UNCHANGED <<args, mainpc, idx, lock, ret, retBy, wres, result>>
    /\ UNCHANGED <<tokenVars, jwtVars, apiVars>>

Main == Start \/ Spawn \/ LoopEnd \/ WaitReturn \/ SeqIter \/ SeqReturn
Worker(w) == WToken(w) \/ WLock(w) \/ WAppend(w) \/ WUnlock(w) \/ WDone(w)

BatchNext == Main \/ \E w \in Workers : Worker(w)

\* The Go scheduler does not stop while a goroutine can run.
SpecBatch == BatchInit /\ [][BatchNext]_vars /\ WF_vars(BatchNext)

\* The goroutines, or iterations, whose call of Token succeeded.
Succeeded == {w \in Workers : wres[w].kind = "ok"}
Attempted == {w \in Workers : wres[w].kind # "none"}

\* The tokens of the successful ones among the first k iterations, in order.
RECURSIVE SuccessesUpTo(_)
SuccessesUpTo(k) ==
    IF k = 0 THEN <<>>
    ELSE SuccessesUpTo(k - 1)
         \o (IF wres[k].kind = "ok" THEN <<wres[k].a>> ELSE <<>>)

Max0(n) == IF n < 0 THEN 0 ELSE n

\* C4: in sequential mode Tokens makes n signing attempts one after another
\* and returns exactly the tokens of the attempts that succeeded, in attempt
\* order, failed ones dropped; n tokens when all succeed, none for n <= 0.
C4_SequentialInOrder ==
    (~args.multithread /\ mainpc = "returned") =>
        /\ Attempted = 1..Max0(args.n)
        /\ result = SuccessesUpTo(Max0(args.n))
        /\ Succeeded = Attempted => Len(result) = Max0(args.n)
        /\ args.n <= 0 => result = <<>>

\* A sequential call of two or more attempts returned, one attempt having
\* failed and a later one succeeded.
C4_Witness ==
    /\ ~args.multithread /\ mainpc = "returned" /\ args.n >= 2
    /\ \E v, w \in Workers : v < w /\ wres[v].kind = "err" /\ wres[w].kind = "ok"
    /\ Len(result) >= 1

\* What holds of a concurrent call at every moment.
ConcurrentSafety ==
    (args.multithread /\ args.n >= 0 /\ mainpc # "start") =>
        \* each goroutine that left has signalled once, the others not yet
        /\ wg = args.n - Cardinality({w \in Workers : wpc[w] = "exited"})
        \* one goroutine at most is between Lock and Unlock, and it holds the lock
        /\ Cardinality({w \in Workers : wpc[w] \in {"append", "unlock"}}) <= 1
        /\ \A w \in Workers : wpc[w] \in {"append", "unlock"} => lock = w
        \* the lock is not held by a goroutine that is signing
        /\ lock # 0 => wpc[lock] \in {"append", "unlock"}
        \* Tokens returns after all goroutines, with one entry per success
        /\ mainpc = "returned" =>
              /\ \A w \in 1..args.n : wpc[w] = "exited"
              /\ result = ret
              /\ Len(result) = Cardinality(Succeeded)
              /\ Len(retBy) = Len(result)
              /\ \A k \in 1..Len(result) :
                    /\ retBy[k] \in Succeeded
                    /\ result[k] = wres[retBy[k]].a
                    /\ \A l \in 1..Len(result) : retBy[k] = retBy[l] => k = l

\* C5: in concurrent mode with n >= 0, under every interleaving, Tokens
\* returns, and only after all n goroutines have finished, each having
\* signalled completion exactly once; the result holds exactly one entry per
\* successful signing; appends are mutually exclusive and the lock is never
\* held during signing.
C5_ConcurrentJoin ==
    /\ []ConcurrentSafety
    /\ (args.multithread /\ args.n >= 0) ~> (mainpc = "returned")

\* A concurrent call of two or more goroutines returned, a goroutine started
\* later having appended first.
C5_Witness ==
    /\ args.multithread /\ mainpc = "returned" /\ args.n >= 2
    /\ Len(result) >= 1
    /\ \E w \in Workers : wres[w].kind = "ok" /\ retBy[1] = w /\ w > 1

\* C9 as stated: any two tokens returned by one concurrent call are distinct.
C9_TokensDistinct ==
    (args.multithread /\ mainpc = "returned") =>
        \A k, l \in 1..Len(result) : k # l => result[k] # result[l]

\* C9, amended: two tokens returned by one concurrent call are the same
\* exactly when their goroutines read the same clock second and drew the
\* same nonce.
C9_DistinctUnlessSameDraw ==
    (args.multithread /\ mainpc = "returned" /\ Len(retBy) = Len(result)) =>
        \A k, l \in 1..Len(result) :
            (result[k] = result[l]) <=>
                /\ wres[retBy[k]].now = wres[retBy[l]].now
                /\ wres[retBy[k]].nonce = wres[retBy[l]].nonce

\* A concurrent call returned two tokens signed in the same second with
\* different nonces, and they differ.
C9_Witness ==
    /\ args.multithread /\ mainpc = "returned" /\ Len(result) >= 2
    /\ wres[retBy[1]].now = wres[retBy[2]].now
    /\ wres[retBy[1]].nonce # wres[retBy[2]].nonce
    /\ result[1] # result[2]

(***************************************************************************)
(* NewSession, StartArchiving, StopArchiving                               *)
(*                                                                         *)
(* issuers, sessions and archives are the heaps of Tokbox, Session and     *)
(* Archive values; a pointer is a position in its heap.  Beside the fields *)
(* of the source a Session or Archive records the call that made it (via)  *)
(* and the pointer that call was made on (from).  last describes the most  *)
(* recent call: what it was called on, the requests it sent, the response  *)
(* it got and what it returned.                                            *)
(***************************************************************************)
\* const apiHost, apiSession, apiStartArchivingURL, apiStopArchivingURL
apiHost    == <<"https://api.opentok.com">>
apiSession == <<"/session/create">>
StartArchivingURL(apiKey) == apiHost \o <<"/v2/project/">> \o apiKey \o <<"/archive">>
StopArchivingURL(apiKey, id) ==
    apiHost \o <<"/v2/project/">> \o apiKey \o <<"/archive/">> \o id \o <<"/stop">>

\* type MediaMode, type ArchiveMode and their constants
MediaRouter   == <<"d", "i", "s", "a", "b", "l", "e", "d">>
P2P           == <<"e", "n", "a", "b", "l", "e", "d">>
ManualArchive == <<"m", "a", "n", "u", "a", "l">>
AlwaysArchive == <<"a", "l", "w", "a", "y", "s">>

\* The text of the responses the remote service may send with an error status.
NoClients ==
    <<"{", "\"message\":", "\"No clients are actively connected to the OpenTok session.\"", "}">>

\* What client(ctx[0]).Do(req) may return: an error, or a response with a
\* status, the text of its body and what the JSON decoder makes of that text.
NoJSON == [ok |-> FALSE, sessions |-> <<>>, archive |-> [ID |-> <<>>, Status |-> <<>>]]
TransportError == [kind |-> "err", status |-> 0, text |-> <<>>, json |-> NoJSON]
ErrorResponses ==
    {[kind |-> "resp", status |-> 404, text |-> NoClients, json |-> NoJSON],
     [kind |-> "resp", status |-> 500, text |-> <<"4", "0", "4">>, json |-> NoJSON]}
BadJSONResponse == [kind |-> "resp", status |-> 200, text |-> <<"<html>">>, json |-> NoJSON]
SessionResponses ==
    {TransportError, BadJSONResponse} \cup ErrorResponses \cup
    {[kind |-> "resp", status |-> 200, text |-> <<"[...]">>,
      json |-> [ok |-> TRUE, sessions |-> ss, archive |-> NoJSON.archive]] :
        ss \in {<<>>, <<[SessionID |-> <<"1", "_", "M", "X">>]>>,
                <<[SessionID |-> <<"1", "_", "M", "X">>], [SessionID |-> <<"2", "_", "M", "X">>]>>}}
ArchiveResponses(status) ==
    {TransportError, BadJSONResponse} \cup ErrorResponses \cup
    {[kind |-> "resp", status |-> 200, text |-> <<"{...}">>,
      json |-> [ok |-> TRUE, sessions |-> <<>>,
                archive |-> [ID |-> <<"a", "1">>, Status |-> status]]]}

NoResponse == [kind |-> "none", status |-> 0, text |-> <<>>, json |-> NoJSON]
NoArchive  == [ID |-> <<>>, Status |-> <<>>, S |-> NilPtr, via |-> "none", from |-> NilPtr]

\* A bug: the body of the response is left out of the message.
StatusError(status, body) ==
    <<"Tokbox returns error code: ">> \o FormatInt(status)

\* fmt.Errorf("Tokbox returns error code: %v. Message: %s", res.StatusCode, stringResponse)
StatusMessageError(status, body) ==
    <<"Tokbox returns error code: ">> \o FormatInt(status) \o <<". Message: ">> \o body

\* fmt.Errorf("Tokbox returns error code: %v", res.StatusCode)
NewSessionStatusError(status) ==
    <<"Tokbox returns error code: ">> \o FormatInt(status)

\* http.NewRequest fails on a URL holding a control character.
BadURL(url) == \E k \in 1..Len(url) : url[k] = "\n"

\* What a call returns: outcome "ok" with one value, "error" with an error
\* and no value, or "panic" when the goroutine panicked instead of returning.
Panicked == [outcome |-> "panic", err |-> <<"nil pointer dereference">>,
             value |-> <<>>, sent |-> <<>>, resp |-> NoResponse]
Failed(err, sent, resp) ==
    [outcome |-> "error", err |-> err, value |-> <<>>, sent |-> sent, resp |-> resp]
Returned(v, sent, resp) ==
    [outcome |-> "ok", err |-> <<>>, value |-> <<v>>, sent |-> sent, resp |-> resp]

\* params.Encode(): the keys in sorted order, the values escaped.
EncodeParams(location, mm, am) ==
    <<"archiveMode=">> \o QueryEscape(am)
    \o (IF Len(location) > 0 THEN <<"&location=">> \o QueryEscape(location) ELSE <<>>)
    \o <<"&p2p.preference=">> \o QueryEscape(mm)

\* o := s[0]; o.T = t
BindSession(o, t) == [SessionID |-> o.SessionID, T |-> t, via |-> "NewSession", from |-> t]

\* Tokbox.NewSession on pointer t, lines 137-192; now1, now2, id and signed
\* are what t.jwtToken() reads and draws, res what the transport returned.
NewSessionCall(t, location, mm, am, now1, now2, id, signed, res) ==
    IF t = NilPtr THEN Panicked
    ELSE LET endpoint == IF issuers[t].betaURL = <<>> THEN apiHost ELSE issuers[t].betaURL
             jwt == jwtToken(issuers[t], now1, now2, id, signed)
             req == [method |-> "POST", url |-> endpoint \o apiSession,
                     body |-> EncodeParams(location, mm, am), auth |-> jwt]
         IN  IF BadURL(req.url) THEN Failed(<<"net/url: invalid control character in URL">>, <<>>, NoResponse)
             ELSE IF jwt.kind # "ok" THEN Failed(<<"jwt: signing failed">>, <<>>, NoResponse)
             ELSE IF res.kind = "err" THEN Failed(<<"transport error">>, <<req>>, res)
             ELSE IF res.status # 200
                  THEN Failed(NewSessionStatusError(res.status), <<req>>, res)
             ELSE IF ~res.json.ok THEN Failed(<<"json: decode error">>, <<req>>, res)
             ELSE IF Len(res.json.sessions) < 1
                  THEN Failed(<<"Tokbox did not return a session">>, <<req>>, res)
             ELSE Returned(BindSession(res.json.sessions[1], t), <<req>>, res)

\* json.Marshal of the map of lines 198-202: the keys in sorted order.
BoolText(b) == IF b THEN <<"true">> ELSE <<"false">>
MarshalStart(SessionID, archiveAudio, archiveVideo) ==
    <<"{\"hasAudio\":">> \o BoolText(archiveAudio) \o <<",\"hasVideo\":">>
    \o BoolText(archiveVideo) \o <<",\"sessionId\":\"">> \o SessionID \o <<"\"}">>

\* archive.S = s
BindStart(decoded, s) ==
    [ID |-> decoded.ID, Status |-> decoded.Status, S |-> s, via |-> "StartArchiving", from |-> s]

\* Session.StartArchiving on pointer s, lines 195-243.
StartArchivingCall(s, archiveVideo, archiveAudio, now1, now2, id, signed, res) ==
    IF s = NilPtr THEN Panicked
    ELSE IF sessions[s].T = NilPtr THEN Panicked
    ELSE LET t   == issuers[sessions[s].T]
             jwt == jwtToken(t, now1, now2, id, signed)
             req == [method |-> "POST", url |-> StartArchivingURL(t.apiKey),
                     body |-> MarshalStart(sessions[s].SessionID, archiveAudio, archiveVideo),
                     auth |-> jwt]
         IN  IF BadURL(req.url) THEN Failed(<<"net/url: invalid control character in URL">>, <<>>, NoResponse)
             ELSE IF jwt.kind # "ok" THEN Failed(<<"jwt: signing failed">>, <<>>, NoResponse)
             ELSE IF res.kind = "err" THEN Failed(<<"transport error">>, <<req>>, res)
             ELSE IF res.status # 200
                  THEN Failed(StatusMessageError(res.status, res.text), <<req>>, res)
             ELSE IF ~res.json.ok THEN Failed(<<"json: decode error">>, <<req>>, res)
             ELSE Returned(BindStart(res.json.archive, s), <<req>>, res)

\* A bug: the Session of the stopped archive is not copied.
BindStopUnbound(decoded, a) ==
    [ID |-> decoded.ID, Status |-> decoded.Status, S |-> NilPtr,
     via |-> "StopArchiving", from |-> a]

\* response.S = archive.S
BindStop(decoded, a) ==
    [ID |-> decoded.ID, Status |-> decoded.Status, S |-> archives[a].S,
     via |-> "StopArchiving", from |-> a]

\* Archive.StopArchiving on pointer a, lines 246-287.
StopArchivingCall(a, now1, now2, id, signed, res) ==
    IF a = NilPtr THEN Panicked
    ELSE IF archives[a].S = NilPtr THEN Panicked
    ELSE IF sessions[archives[a].S].T = NilPtr THEN Panicked
    ELSE LET t   == issuers[sessions[archives[a].S].T]
             jwt == jwtToken(t, now1, now2, id, signed)
             req == [method |-> "POST", url |-> StopArchivingURL(t.apiKey, archives[a].ID),
                     body |-> <<>>, auth |-> jwt]
         IN  IF BadURL(req.url) THEN Failed(<<"net/url: invalid control character in URL">>, <<>>, NoResponse)
             ELSE IF jwt.kind # "ok" THEN Failed(<<"jwt: signing failed">>, <<>>, NoResponse)
             ELSE IF res.kind = "err" THEN Failed(<<"transport error">>, <<req>>, res)
             ELSE IF res.status # 200
                  THEN Failed(StatusMessageError(res.status, res.text), <<req>>, res)
             ELSE IF ~res.json.ok THEN Failed(<<"json: decode error">>, <<req>>, res)
             ELSE Returned(BindStop(res.json.archive, a), <<req>>, res)

(***************************************************************************)
(* Spec: the calls a program makes on two Tokbox values.                   *)
(***************************************************************************)
\* The second key holds a control character: no URL can be built from it.
ApiIssuers == <<New(<<"k", "1">>, <<"x">>), New(<<"k", "\n">>, <<"y">>)>>

Init ==
    /\ issuers = ApiIssuers /\ sessions = <<>> /\ archives = <<>>
    /\ last = [op |-> "none"]
    /\ TokenIdle /\ JwtIdle /\ BatchIdle

LastOf(op, recv, pre, r, ptr) ==
    [op |-> op, recv |-> recv, pre |-> pre, outcome |-> r.outcome, err |-> r.err,
     value |-> IF r.outcome = "ok" THEN ptr ELSE NilPtr,
     sent |-> r.sent, resp |-> r.resp]

\* The caller builds a Session value itself: T is an exported field.
MakeSession ==
    /\ Len(sessions) < MaxSessions
    /\ \E t \in 0..Len(issuers) :
         sessions' = Append(sessions, [SessionID |-> <<"0", "_", "M", "X">>, T |-> t,
                                       via |-> "literal", from |-> NilPtr])
    /\ UNCHANGED <<issuers, archives, last, tokenVars, jwtVars, batchVars>>

\* The caller builds an Archive value itself: S is an exported field.
MakeArchive ==
    /\ Len(archives) < MaxArchives
    /\ \E s \in 0..Len(sessions) :
         archives' = Append(archives, [ID |-> <<"a", "0">>, Status |-> <<"started">>, S |-> s,
                                       via |-> "literal", from |-> NilPtr])
    /\ UNCHANGED <<issuers, sessions, last, tokenVars, jwtVars, batchVars>>

\* What the environment does during one call: whether the assertion could
\* be signed and, when it could, what the transport returned.  A call made
\* through a nil pointer consults neither.
EnvFor(valid, responses) ==
    {[signed |-> FALSE, res |-> NoResponse]}
    \cup (IF valid THEN {[signed |-> TRUE, res |-> r] : r \in responses} ELSE {})

SessionHasIssuer(s) == s # NilPtr /\ sessions[s].T # NilPtr
ArchiveHasIssuer(a) == a # NilPtr /\ SessionHasIssuer(archives[a].S)

NewSession ==
    \E t \in 0..Len(issuers), location \in {<<"1", "0", ".", "0", ".", "0", ".", "1">>},
       mm \in {P2P}, am \in {ManualArchive}, id \in {<<"u", "1">>} :
      \E env \in EnvFor(t # NilPtr, SessionResponses) :
        LET r == NewSessionCall(t, location, mm, am, clock, clock, id, env.signed, env.res)
        IN  /\ r.outcome = "ok" => Len(sessions) < MaxSessions
            /\ sessions' = sessions \o r.value
            /\ last' = LastOf("NewSession", t, NoArchive, r, Len(sessions) + 1)
            /\ UNCHANGED <<issuers, archives, tokenVars, jwtVars, batchVars>>

StartArchiving ==
    \E s \in 0..Len(sessions), archiveVideo \in BOOLEAN, archiveAudio \in BOOLEAN,
       id \in {<<"u", "1">>} :
      \E env \in EnvFor(SessionHasIssuer(s), ArchiveResponses(<<"started">>)) :
        LET r == StartArchivingCall(s, archiveVideo, archiveAudio, clock, clock, id,
                                    env.signed, env.res)
        IN  /\ r.outcome = "ok" => Len(archives) < MaxArchives
            /\ archives' = archives \o r.value
            /\ last' = LastOf("StartArchiving", s, NoArchive, r, Len(archives) + 1)
            /\ UNCHANGED <<issuers, sessions, tokenVars, jwtVars, batchVars>>

StopArchiving ==
    \E a \in 0..Len(archives), id \in {<<"u", "1">>} :
      \E env \in EnvFor(ArchiveHasIssuer(a), ArchiveResponses(<<"stopped">>)) :
        LET r == StopArchivingCall(a, clock, clock, id, env.signed, env.res)
        IN  /\ r.outcome = "ok" => Len(archives) < MaxArchives
            /\ archives' = archives \o r.value
            /\ last' = LastOf("StopArchiving", a,
                              IF a = NilPtr THEN NoArchive ELSE archives[a], r,
                              Len(archives) + 1)
            /\ UNCHANGED <<issuers, sessions, tokenVars, jwtVars, batchVars>>

Next == MakeSession \/ MakeArchive \/ NewSession \/ StartArchiving \/ StopArchiving

Spec == Init /\ [][Next]_vars

\* C1: StartArchiving on a Session whose T is nil returns an error to the
\* caller, without crashing and without an outbound network call, whatever
\* the audio and video flags.
C1_StartOnNilIssuerReturnsError ==
    (/\ last.op = "StartArchiving" /\ last.recv # NilPtr
     /\ sessions[last.recv].T = NilPtr)
        => /\ last.outcome = "error"
           /\ last.value = NilPtr
           /\ last.sent = <<>>

\* C2: StopArchiving on an Archive whose S is nil, or whose Session has a
\* nil T, returns an error to the caller, without crashing and without an
\* outbound network call.
C2_StopOnUnboundArchiveReturnsError ==
    (/\ last.op = "StopArchiving" /\ last.recv # NilPtr
     /\ ~ArchiveHasIssuer(last.recv))
        => /\ last.outcome = "error"
           /\ last.value = NilPtr
           /\ last.sent = <<>>

\* C3: when the remote service answers StartArchiving or StopArchiving with
\* a status other than 200, the call returns no Archive and an error whose
\* text contains the status code and the text of the response body unchanged.
C3_ArchiveErrorCarriesStatusAndBody ==
    (/\ last.op \in {"StartArchiving", "StopArchiving"}
     /\ last.resp.kind = "resp" /\ last.resp.status # 200)
        => /\ last.outcome = "error"
           /\ last.value = NilPtr
           /\ Contains(last.err, FormatInt(last.resp.status))
           /\ Contains(last.err, last.resp.text)

\* StopArchiving was answered 404 with the "No clients" body, and its error
\* holds "404" and the sentence of the body.
C3_Witness ==
    /\ last.op = "StopArchiving"
    /\ last.resp.kind = "resp" /\ last.resp.status = 404 /\ last.resp.text = NoClients
    /\ Contains(last.err, <<"4", "0", "4">>)
    /\ Contains(last.err, <<"\"No clients are actively connected to the OpenTok session.\"">>)

\* C8: when the remote service answers NewSession with a status other than
\* 200, the call returns no Session and an error whose message contains the
\* status code and the text of the response body.
C8_NewSessionErrorCarriesStatusAndBody ==
    (/\ last.op = "NewSession"
     /\ last.resp.kind = "resp" /\ last.resp.status # 200)
        => /\ last.outcome = "error"
           /\ last.value = NilPtr
           /\ Contains(last.err, FormatInt(last.resp.status))
           /\ Contains(last.err, last.resp.text)

\* C10: a Session returned by NewSession references the Tokbox it was called
\* on, never nil; an Archive returned by StartArchiving references the
\* Session it was called on; an Archive returned by StopArchiving is a new
\* value referencing the Session of the input Archive, which is unchanged;
\* so every Archive these calls return has a Session with a Tokbox.
C10_BackReferences ==
    /\ \A s \in 1..Len(sessions) :
          sessions[s].via = "NewSession" =>
              sessions[s].T = sessions[s].from /\ sessions[s].T # NilPtr
    /\ \A a \in 1..Len(archives) :
          /\ archives[a].via = "StartArchiving" => archives[a].S = archives[a].from
          /\ archives[a].via = "StopArchiving" =>
                /\ archives[a].from # a
                /\ archives[a].S = archives[archives[a].from].S
          /\ archives[a].via \in {"StartArchiving", "StopArchiving"} =>
                /\ archives[a].S # NilPtr
                /\ sessions[archives[a].S].T # NilPtr
    /\ (last.op = "NewSession" /\ last.outcome = "ok") =>
          sessions[last.value].T = last.recv
    /\ (last.op = "StartArchiving" /\ last.outcome = "ok") =>
          archives[last.value].S = last.recv
    /\ (last.op = "StopArchiving" /\ last.outcome = "ok") =>
          /\ last.value # last.recv
          /\ archives[last.recv] = last.pre
          /\ archives[last.value].S = last.pre.S

\* An Archive started on a Session made by NewSession on the second of two
\* Sessions has been stopped.
C10_Witness ==
    /\ last.op = "StopArchiving" /\ last.outcome = "ok"
    /\ archives[last.recv].via = "StartArchiving"
    /\ archives[last.recv].S = 2
    /\ sessions[2].via = "NewSession"
    /\ archives[last.value].S = 2

====
